---- MODULE Spec2Model ----
(***************************************************************************)
(* Transaction-queue manager of toshieth (src/toshieth/manager.py).        *)
(*                                                                         *)
(* State: the transactions table (mutable columns status and blocknumber), *)
(* the last_blocknumber singleton, the Ethereum node's view of every       *)
(* transaction, the per-address gate listener.processing_queue, the        *)
(* coroutines running process_transaction_queue, the task bus              *)
(* (process_transaction_queue tasks, send_notification tasks, the          *)
(* sanity_check task) and the running sanity_check tick.                   *)
(*                                                                         *)
(* One action is one stretch of a coroutine between two suspension points  *)
(* that matter; every `async with self.db` block is one database           *)
(* transaction and is taken as one step.                                   *)
(***************************************************************************)
EXTENDS Integers, Sequences, FiniteSets, TLC

\* ------------------------------------------------------------- bounds
\* calls of process_transaction_queue that can be open at the same time
MaxCalls == 2
\* of these, the calls the task listener runs while the reconciler, the node
\* and the block monitor are running too
MaxWorkers == 1
\* process_transaction_queue tasks pending on the bus, per address
MaxTasks == 2
\* highest block number the node mines
MaxBlock == 2
\* send_notification tasks recorded per transaction and address
MaxPN == 4

\* ------------------------------------------------------------- values
\* Python's None in an integer column (blocknumber, last_blocknumber,
\* blockNumber of a pending node transaction)
None == 0 - 1
\* eth_getTransactionByHash answers None: the node does not know the hash
Unknown == 0 - 2

\* the contract-creation sentinel
ZeroX == "0x"
Senders == {"A", "B"}
Addresses == Senders \cup {ZeroX}

Calls == 1..MaxCalls
Workers == 1..MaxWorkers
Blocks == 1..MaxBlock

\* status column; "NULL" is SQL NULL
Statuses == {"NULL", "queued", "unconfirmed", "confirmed", "error"}
\* statuses update_transaction is called with
Targets == {"queued", "unconfirmed", "confirmed", "error"}

\* The rows of the transactions table; t0 is a transaction_id with no row.
Rows == {"t1", "t2", "t3"}
Ids == Rows \cup {"t0"}

\* The immutable columns of the rows: the tables the database may hold.
\* sig is "ok" when (v, r, s) recover from_address, "bad" when they recover
\* another address, "none" when r IS NULL (an unsigned draft).
\* Cycle: A pays B, B pays A, and A has an unsigned draft of a contract
\* deployment.
Cycle ==
  [ t1 |-> [from_address |-> "A", to_address |-> "B",  nonce |-> 0,
            value |-> 2, gas |-> 1, gas_price |-> 1, sig |-> "ok"],
    t2 |-> [from_address |-> "B", to_address |-> "A",  nonce |-> 0,
            value |-> 4, gas |-> 1, gas_price |-> 1, sig |-> "ok"],
    t3 |-> [from_address |-> "A", to_address |-> ZeroX, nonce |-> 1,
            value |-> 1, gas |-> 1, gas_price |-> 1, sig |-> "none"] ]
\* Queue: B pays itself, then deploys a contract, then pays A with a
\* signature that is not B's.
Queue ==
  [ t1 |-> [from_address |-> "B", to_address |-> "B",  nonce |-> 0,
            value |-> 4, gas |-> 1, gas_price |-> 1, sig |-> "ok"],
    t2 |-> [from_address |-> "B", to_address |-> ZeroX, nonce |-> 1,
            value |-> 1, gas |-> 1, gas_price |-> 1, sig |-> "ok"],
    t3 |-> [from_address |-> "B", to_address |-> "A",  nonce |-> 2,
            value |-> 0, gas |-> 1, gas_price |-> 1, sig |-> "bad"] ]
\* Drafts: A pays B, and has two unsigned drafts.
Drafts ==
  [ t1 |-> [from_address |-> "A", to_address |-> "B",  nonce |-> 0,
            value |-> 2, gas |-> 1, gas_price |-> 1, sig |-> "ok"],
    t2 |-> [from_address |-> "A", to_address |-> "A",  nonce |-> 1,
            value |-> 1, gas |-> 1, gas_price |-> 1, sig |-> "none"],
    t3 |-> [from_address |-> "A", to_address |-> ZeroX, nonce |-> 2,
            value |-> 1, gas |-> 1, gas_price |-> 1, sig |-> "none"] ]
\* Own: A pays itself, and has two unsigned drafts.
Own ==
  [ t1 |-> [from_address |-> "A", to_address |-> "A",  nonce |-> 0,
            value |-> 4, gas |-> 1, gas_price |-> 1, sig |-> "ok"],
    t2 |-> [from_address |-> "A", to_address |-> "B",  nonce |-> 1,
            value |-> 1, gas |-> 1, gas_price |-> 1, sig |-> "none"],
    t3 |-> [from_address |-> "A", to_address |-> ZeroX, nonce |-> 2,
            value |-> 1, gas |-> 1, gas_price |-> 1, sig |-> "none"] ]
\* the tables of Spec and SpecGate, and those of SpecAPI
Tables == {Cycle, Queue}
TablesAPI == {Drafts, Own}
\* the transaction_ids other services call update_transaction with
IdsAPI == {"t0", "t1"}

\* answers of eth_getBalance and eth_getTransactionCount the node may give
Balances == {0, 3, 6, 8}
TxCounts == {0, 1}

VARIABLES
  status,            \* transactions.status, per row
  blocknumber,       \* transactions.blocknumber, per row (None = NULL)
  Tx,                \* transactions: the immutable columns, per row
  last_blocknumber,  \* the last_blocknumber singleton (None = NULL)
  node,              \* per row: Unknown, None (pending) or the block it is in
  processing_queue,  \* listener.processing_queue: address -> queue of futures
  calls,             \* per coroutine of process_transaction_queue: its locals
  tasks,             \* task bus: pending process_transaction_queue per address
  pns,               \* task bus: send_notification dispatched, per row, address
  sanity             \* the sanity_check task and its running tick

vars == <<status, blocknumber, Tx, last_blocknumber, node, processing_queue,
          calls, tasks, pns, sanity>>


\* ------------------------------------------------------------ helpers
\* `x or 0` for a block number
OrZero(b) == IF b = None THEN 0 ELSE b

\* value + gas * gas_price of a row
Cost(id) == Tx[id].value + Tx[id].gas * Tx[id].gas_price

RECURSIVE SumOver(_, _)
SumOver(S, f) ==
  IF S = {} THEN 0
  ELSE LET x == CHOOSE y \in S : TRUE IN f[x] + SumOver(S \ {x}, f)

\* the rows of S as a sequence in ascending nonce order
RECURSIVE ByNonce(_)
ByNonce(S) ==
  IF S = {} THEN <<>>
  ELSE LET x == CHOOSE y \in S : \A z \in S : Tx[y].nonce <= Tx[z].nonce
       IN <<x>> \o ByNonce(S \ {x})

\* a sequence of n copies of x
Copies(n, x) == [i \in 1..n |-> x]

\* how often a occurs in the sequence s
Occurrences(a, s) == Cardinality({i \in 1..Len(s) : s[i] = a})

\* ------------------------------------------------- update_transaction
\* lines 222-228: the row is left alone when it already has the status, or
\* when it is confirmed
\* the guards of update_transaction with one of the two left out
RefusedSame(prev, s) == prev = s
RefusedConfirmed(prev, s) == prev = "confirmed"
RefusedQueued(prev, s) ==
  prev = s \/ prev = "confirmed" \/ (prev = "queued" /\ s = "unconfirmed")
Refused(prev, s) == prev = s \/ prev = "confirmed"

\* lines 232-233: the block number stored with 'confirmed' is the node's
\* answer at that moment (parse_int(None) is None)
ConfirmedBlock(id) == node[id]

\* lines 245-246: 'queued' is shown as 'unconfirmed'
ShownAsIs(s) == s
Shown(s) == IF s = "queued" THEN "unconfirmed" ELSE s

\* lines 247-249: 'queued' -> 'unconfirmed' is not announced at all
Suppressed(prev, s) == s = "unconfirmed" /\ prev = "queued"

\* lines 258-272: the addresses send_notification is dispatched to, in order
NotifiedBoth(prev, shown, from, to) ==
  IF to = ZeroX THEN <<from>> ELSE <<from, to>>
Notified(prev, shown, from, to) ==
  IF to = ZeroX THEN <<from>>
  ELSE IF prev = "NULL" /\ shown = "error" THEN <<from>>
  ELSE <<from, to>>

\* lines 261-262 and 276: the queue that is re-triggered
Recipient(to) == IF to = ZeroX THEN {} ELSE {to}

Nothing ==
  [write |-> FALSE, raised |-> FALSE, status |-> "NULL", blocknumber |-> None,
   shown |-> "NULL", pn |-> <<>>, trigger |-> {}]

\* update_transaction(transaction_id, status): what the call does in the
\* current state.  write: the row is updated and committed; raised: the call
\* raises (eth_getTransactionByHash answered None, line 233); pn: the
\* addresses notified with status `shown`; trigger: the addresses whose
\* process_transaction_queue is dispatched.
update_transaction(id, s) ==
  IF id \notin Rows THEN Nothing
  ELSE IF Refused(status[id], s) THEN Nothing
  ELSE IF s = "confirmed" /\ node[id] = Unknown
    THEN [Nothing EXCEPT !.raised = TRUE]
  ELSE LET prev == status[id]
           row  == [write |-> TRUE, raised |-> FALSE, status |-> s,
                    blocknumber |-> IF s = "confirmed" THEN ConfirmedBlock(id)
                                    ELSE blocknumber[id],
                    shown |-> Shown(s), pn |-> <<>>, trigger |-> {}]
       IN IF Suppressed(prev, s) THEN row
          ELSE [row EXCEPT
                  !.pn = Notified(prev, Shown(s), Tx[id].from_address,
                                  Tx[id].to_address),
                  !.trigger = Recipient(Tx[id].to_address)]

\* the task bus after process_transaction_queue is dispatched once for each
\* address of S, and once more for each address of T
Dispatched(S, T) ==
  [a \in Addresses |-> tasks[a] + (IF a \in S THEN 1 ELSE 0)
                                + (IF a \in T THEN 1 ELSE 0)]

\* the notifications after u's are dispatched
Announced(id, u) ==
  IF id \notin Rows THEN pns
  ELSE [pns EXCEPT ![id] =
          [a \in Addresses |->
             pns[id][a] \o Copies(Occurrences(a, u.pn), u.shown)]]

\* the effect of the call u == update_transaction(id, s) on the database and
\* the task bus
Commit(id, u) ==
  /\ status' = IF u.write THEN [status EXCEPT ![id] = u.status] ELSE status
  /\ blocknumber' = IF u.write THEN [blocknumber EXCEPT ![id] = u.blocknumber]
                    ELSE blocknumber
  /\ pns' = Announced(id, u)
  /\ tasks' = Dispatched(u.trigger, {})
  /\ \A a \in Addresses : tasks'[a] <= MaxTasks
  /\ \A r \in Rows, a \in Addresses : Len(pns'[r][a]) <= MaxPN


\* ------------------------------------------ process_transaction_queue
NoTransaction == [id |-> "t0", status |-> "NULL"]

\* a coroutine slot with no call in it
Idle ==
  [pc |-> "idle", ethereum_address |-> ZeroX, last_blocknumber |-> None,
   transactions_out |-> <<>>, balance |-> 0, nonce |-> 0,
   previous_error |-> FALSE, addresses_to_check |-> {},
   transaction |-> NoTransaction, raised |-> FALSE, done |-> <<>>]

\* pc values between the start and the end of _process_transaction_queue
InPass == {"process", "balance", "loop", "sent", "park", "dispatch"}

\* line 33: no call holds the address's gate
GateIgnored(a) == TRUE
GateFree(a) == a \notin DOMAIN processing_queue

\* a release that takes the next future off the queue and leaves it unresolved
ReleaseUnresolved(a) ==
  IF processing_queue[a] = <<>>
  THEN [queue |-> [x \in DOMAIN processing_queue \ {a} |-> processing_queue[x]],
        woken |-> {}]
  ELSE [queue |-> [processing_queue EXCEPT ![a] = Tail(@)], woken |-> {}]

\* lines 45-52: the gate of address a after a call on it ended; woken is the
\* set of calls whose future is resolved
Release(a) ==
  IF processing_queue[a] = <<>>
  THEN [queue |-> [x \in DOMAIN processing_queue \ {a} |-> processing_queue[x]],
        woken |-> {}]
  ELSE [queue |-> [processing_queue EXCEPT ![a] = Tail(@)],
        woken |-> {Head(processing_queue[a])}]

\* the sender's signed rows whatever their status
OutboundAnyStatus(a) ==
  {r \in Rows : Tx[r].from_address = a /\ Tx[r].sig # "none"}

\* lines 64-72: the sender's signed rows with status NULL or 'queued'
Outbound(a) ==
  {r \in Rows : /\ Tx[r].from_address = a
                /\ status[r] \in {"NULL", "queued"}
                /\ Tx[r].sig # "none"}

\* lines 90-96: the sender's rows that are broadcast and not yet in the
\* snapshot block
Inflight(a, last) ==
  {r \in Rows : /\ Tx[r].from_address = a
                /\ \/ status[r] = "unconfirmed"
                   \/ status[r] = "confirmed" /\ blocknumber[r] > OrZero(last)}

\* lines 178-184: the rows that may still pay the address
Incoming(a, last) ==
  {r \in Rows : /\ Tx[r].to_address = a
                /\ \/ status[r] \in {"NULL", "queued", "unconfirmed"}
                   \/ status[r] = "confirmed" /\ blocknumber[r] > OrZero(last)}

\* line 187
PendingReceived(a, last) ==
  SumOver(Incoming(a, last), [r \in Rows |-> Tx[r].value])

\* a test that never finds an incoming row confirmed after the snapshot
ConfirmedSinceNever(a, last) == "no"

\* line 196: an incoming row was confirmed after the snapshot block.  With
\* last_blocknumber None the comparison of an integer with None raises
\* TypeError.
ConfirmedSince(a, last) ==
  IF \A r \in Incoming(a, last) : blocknumber[r] = None THEN "no"
  ELSE IF last = None THEN "TypeError"
  ELSE IF \E r \in Incoming(a, last) :
            blocknumber[r] # None /\ blocknumber[r] > last THEN "yes"
  ELSE "no"

\* a loop body that broadcasts when balance plus pending inbound covers the cost
BranchOptimistic(c, id) ==
  IF c.previous_error THEN "previous_error"
  ELSE IF c.nonce # Tx[id].nonce THEN "nonce"
  ELSE IF c.balance + PendingReceived(c.ethereum_address, c.last_blocknumber)
            >= Cost(id)
    THEN IF Tx[id].sig # "ok" THEN "signature" ELSE "send"
  ELSE "insufficient"

\* lines 114-194: which branch of the loop body the transaction takes
Branch(c, id) ==
  IF c.previous_error THEN "previous_error"
  ELSE IF c.nonce # Tx[id].nonce THEN "nonce"
  ELSE IF c.balance >= Cost(id)
    THEN IF Tx[id].sig # "ok" THEN "signature" ELSE "send"
  ELSE IF c.balance + PendingReceived(c.ethereum_address, c.last_blocknumber)
            < Cost(id) THEN "insufficient"
  ELSE "park"

\* the JSON-RPC error left out
FailsBeforeSend(branch) == branch \in {"nonce", "signature", "insufficient"}
\* lines 123, 149, 163, 190: the branches that set previous_error
Fails(branch) == branch \in {"nonce", "signature", "rpc", "insufficient"}

\* where the loop goes once the transaction is handled (line 110)
AfterLoop(rest) == IF rest = <<>> THEN "dispatch" ELSE "loop"

RetriggeredAll(check) == check
\* lines 210-213: the addresses of addresses_to_check that are re-triggered
Retriggered(check) == check \ {ZeroX}

\* a pass that re-triggers its own queue whatever is left
LeftoverAlways(c) == {c.ethereum_address}
\* lines 215-216: the queue re-triggers itself when rows are left
Leftover(c) ==
  IF c.transactions_out # <<>> THEN {c.ethereum_address} ELSE {}

\* lines 30-38: a worker takes a process_transaction_queue task from the bus
Call(p, a) ==
  /\ calls[p].pc = "idle"
  /\ \A q \in Calls : calls[q].pc = "idle" => p <= q  \* the first free slot
  /\ tasks[a] > 0
  /\ tasks' = [tasks EXCEPT ![a] = @ - 1]
  /\ IF GateFree(a)
       THEN /\ processing_queue' = (a :> <<>>) @@ processing_queue
            /\ calls' = [calls EXCEPT ![p] =
                           [Idle EXCEPT !.pc = "process", !.ethereum_address = a]]
       ELSE /\ processing_queue' =
                 [processing_queue EXCEPT ![a] = Append(@, p)]
            /\ calls' = [calls EXCEPT ![p] =
                           [Idle EXCEPT !.pc = "await", !.ethereum_address = a]]
  /\ UNCHANGED <<status, blocknumber, Tx, last_blocknumber, node, pns, sanity>>

\* lines 59-80: the snapshot of last_blocknumber and of the outbound rows
ReadQueue(p) ==
  LET c == calls[p]
      out == ByNonce(Outbound(c.ethereum_address))
  IN /\ c.pc = "process"
     /\ calls' = [calls EXCEPT ![p] =
          [c EXCEPT !.pc = IF out = <<>> THEN "dispatch" ELSE "balance",
                    !.last_blocknumber = last_blocknumber,
                    !.transactions_out =
                       [i \in 1..Len(out) |->
                          [id |-> out[i], status |-> status[out[i]]]]]]
     /\ UNCHANGED <<status, blocknumber, Tx, last_blocknumber, node,
                    processing_queue, tasks, pns, sanity>>

\* lines 86-107: the balance and the expected nonce
ReadBalance(p) ==
  LET c == calls[p]
      unconfirmed_txs == Inflight(c.ethereum_address, c.last_blocknumber)
      spent == SumOver(unconfirmed_txs, [r \in Rows |-> Cost(r)])
  IN /\ c.pc = "balance"
     /\ \/ \E b \in Balances, n \in TxCounts :
             calls' = [calls EXCEPT ![p] =
               [c EXCEPT !.pc = "loop",
                         !.balance = IF unconfirmed_txs # {} THEN b - spent ELSE b,
                         !.nonce = IF unconfirmed_txs # {}
                                   THEN Tx[ByNonce(unconfirmed_txs)
                                             [Cardinality(unconfirmed_txs)]].nonce + 1
                                   ELSE n]]
        \/ \* the node call raises
           calls' = [calls EXCEPT ![p] = [c EXCEPT !.pc = "finally",
                                                   !.raised = TRUE]]
     /\ UNCHANGED <<status, blocknumber, Tx, last_blocknumber, node,
                    processing_queue, tasks, pns, sanity>>

\* lines 114-127, 145-152, 158-166, 189-194: the transaction becomes 'error'
Fail(p, branch) ==
  LET c == calls[p]
      t == Head(c.transactions_out)
      rest == Tail(c.transactions_out)
  IN /\ Commit(t.id, update_transaction(t.id, "error"))
     /\ calls' = [calls EXCEPT ![p] =
          [c EXCEPT !.pc = AfterLoop(rest),
                    !.transactions_out = rest,
                    !.previous_error = c.previous_error \/ Fails(branch),
                    !.addresses_to_check = @ \cup {Tx[t.id].to_address},
                    !.done = Append(@, [id |-> t.id, branch |-> branch])]]
     /\ UNCHANGED <<Tx, last_blocknumber, node, processing_queue, sanity>>

\* lines 110-208: one transaction of the queue
Loop(p) ==
  LET c == calls[p]
      t == Head(c.transactions_out)
      rest == Tail(c.transactions_out)
      branch == Branch(c, t.id)
      since == ConfirmedSince(c.ethereum_address, c.last_blocknumber)
  IN /\ c.pc = "loop"
     /\ \/ /\ branch \in {"previous_error", "nonce", "signature", "insufficient"}
           /\ Fail(p, branch)
        \/ \* eth_sendRawTransaction raises JsonRPCError
           /\ branch = "send"
           /\ Fail(p, "rpc")
        \/ \* eth_sendRawTransaction succeeds
           /\ branch = "send"
           /\ node' = [node EXCEPT ![t.id] = IF @ = Unknown THEN None ELSE @]
           /\ calls' = [calls EXCEPT ![p] =
                [c EXCEPT !.pc = "sent", !.transactions_out = rest,
                          !.transaction = t,
                          !.done = Append(@, [id |-> t.id, branch |-> "send"])]]
           /\ UNCHANGED <<status, blocknumber, Tx, last_blocknumber,
                          processing_queue, tasks, pns, sanity>>
        \/ /\ branch = "park"
           /\ calls' = [calls EXCEPT ![p] =
                IF since = "TypeError"
                THEN [c EXCEPT !.pc = "finally", !.raised = TRUE,
                               !.transactions_out = rest]
                ELSE [c EXCEPT !.pc = "park", !.transactions_out = rest,
                               !.transaction = t,
                               !.addresses_to_check =
                                  IF since = "yes"
                                  THEN @ \cup {c.ethereum_address} ELSE @]]
           /\ UNCHANGED <<status, blocknumber, Tx, last_blocknumber, node,
                          processing_queue, tasks, pns, sanity>>

\* lines 157, 168-171: the broadcast transaction becomes 'unconfirmed'
Sent(p) ==
  LET c == calls[p]
      id == c.transaction.id
  IN /\ c.pc = "sent"
     /\ Commit(id, update_transaction(id, "unconfirmed"))
     /\ calls' = [calls EXCEPT ![p] =
          [c EXCEPT !.pc = AfterLoop(c.transactions_out),
                    !.transaction = NoTransaction,
                    !.balance = @ - Cost(id),
                    !.nonce = @ + 1]]
     /\ UNCHANGED <<Tx, last_blocknumber, node, processing_queue, sanity>>

\* lines 204-208: one round of the loop that parks the rest of the queue
Park(p) ==
  LET c == calls[p]
      t == c.transaction
      u == IF t.status = "NULL" THEN update_transaction(t.id, "queued")
           ELSE Nothing
      more == c.transactions_out # <<>>
  IN /\ c.pc = "park"
     /\ Commit(t.id, u)
     /\ calls' = [calls EXCEPT ![p] =
          [c EXCEPT !.pc = IF more THEN "park" ELSE "dispatch",
                    !.transaction = IF more THEN Head(c.transactions_out)
                                    ELSE NoTransaction,
                    !.transactions_out = IF more THEN Tail(@) ELSE @,
                    !.done = Append(@, [id |-> t.id, branch |-> "park"])]]
     /\ UNCHANGED <<Tx, last_blocknumber, node, processing_queue, sanity>>

\* lines 210-216 and 44-52: the pass returns: it dispatches the re-triggers
\* and hands the gate on
Return(p) ==
  LET c == calls[p]
      r == Release(c.ethereum_address)
  IN /\ c.pc = "dispatch"
     /\ tasks' = Dispatched(Retriggered(c.addresses_to_check), Leftover(c))
     /\ \A a \in Addresses : tasks'[a] <= MaxTasks
     /\ processing_queue' = r.queue
     /\ calls' = [q \in Calls |->
                    IF q = p THEN Idle
                    ELSE IF q \in r.woken THEN [calls[q] EXCEPT !.pc = "process"]
                    ELSE calls[q]]
     /\ UNCHANGED <<status, blocknumber, Tx, last_blocknumber, node, pns,
                    sanity>>

\* lines 42-52: the pass raised: the exception is logged and the gate handed on
Finally(p) ==
  LET c == calls[p]
      r == Release(c.ethereum_address)
  IN /\ c.pc = "finally"
     /\ processing_queue' = r.queue
     /\ calls' = [q \in Calls |->
                    IF q = p THEN Idle
                    ELSE IF q \in r.woken THEN [calls[q] EXCEPT !.pc = "process"]
                    ELSE calls[q]]
     /\ UNCHANGED <<status, blocknumber, Tx, last_blocknumber, node, tasks,
                    pns, sanity>>

\* -------------------------------------------------------- sanity_check
NoLookup == [id |-> "t0", blockNumber |-> Unknown]

\* the sanity_check task waiting on the bus
Scheduled ==
  [pc |-> "scheduled", rows |-> <<>>, unconfirmed_transactions |-> <<>>,
   tx |-> NoLookup, addresses_to_check |-> {}]

\* lines 280-283: the senders with a row that is neither confirmed nor error
\* (every row is taken to be older than two minutes)
StaleSenders ==
  {Tx[r].from_address : r \in {x \in Rows :
      status[x] \in {"unconfirmed", "queued", "NULL"}}}

\* lines 295-299
UnconfirmedOf(a) ==
  {r \in Rows : Tx[r].from_address = a /\ status[r] = "unconfirmed"}

\* the orders in which a query without ORDER BY may return a set of addresses
Orders(S) ==
  {q \in UNION {[1..n -> S] : n \in {Cardinality(S)}} :
     \A i, j \in 1..Cardinality(S) : i # j => q[i] # q[j]}

\* where the tick goes once a sender or a transaction is handled
AfterSender(s) ==
  IF s.unconfirmed_transactions # <<>> THEN "lookup"
  ELSE IF s.rows # <<>> THEN "address"
  ELSE "end"

\* lines 278-287: the tick starts and reads the stale senders
SanityStart ==
  /\ sanity.pc = "scheduled"
  /\ \E rows \in Orders(StaleSenders) :
       sanity' = [Scheduled EXCEPT
                    !.pc = IF rows = <<>> THEN "end" ELSE "address",
                    !.rows = rows]
  /\ UNCHANGED <<status, blocknumber, Tx, last_blocknumber, node,
                 processing_queue, calls, tasks, pns>>

\* lines 289-301, 330-334: the next sender and its unconfirmed rows
SanityAddress ==
  LET a == Head(sanity.rows)
      u == ByNonce(UnconfirmedOf(a))
      s == [sanity EXCEPT
              !.rows = Tail(@),
              !.unconfirmed_transactions = u,
              !.addresses_to_check = IF u = <<>> THEN @ \cup {a} ELSE @]
  IN /\ sanity.pc = "address"
     /\ sanity' = [s EXCEPT !.pc = AfterSender(s)]
     /\ UNCHANGED <<status, blocknumber, Tx, last_blocknumber, node,
                    processing_queue, calls, tasks, pns>>

\* line 310: what the node knows about the next unconfirmed row
SanityLookup ==
  LET id == Head(sanity.unconfirmed_transactions)
  IN /\ sanity.pc = "lookup"
     /\ sanity' = [sanity EXCEPT
                     !.pc = "update",
                     !.unconfirmed_transactions = Tail(@),
                     !.tx = [id |-> id, blockNumber |-> node[id]]]
     /\ UNCHANGED <<status, blocknumber, Tx, last_blocknumber, node,
                    processing_queue, calls, tasks, pns>>

\* lines 313-328: the status the tick gives the row ("" for none)
Verdict(blockNumber) ==
  IF blockNumber = Unknown THEN "error"
  ELSE IF blockNumber # None THEN "confirmed"
  ELSE ""

\* lines 313-328: the row is updated from the node's answer
SanityUpdate ==
  LET id == sanity.tx.id
      verdict == Verdict(sanity.tx.blockNumber)
      u == IF verdict = "" THEN Nothing ELSE update_transaction(id, verdict)
      s == [sanity EXCEPT
              !.tx = NoLookup,
              !.addresses_to_check =
                 IF verdict = "" THEN @
                 ELSE @ \cup {Tx[id].from_address, Tx[id].to_address}]
  IN /\ sanity.pc = "update"
     /\ Commit(id, u)
     /\ sanity' = IF u.raised THEN [Scheduled EXCEPT !.pc = "dead"]
                  ELSE [s EXCEPT !.pc = AfterSender(s)]
     /\ UNCHANGED <<Tx, last_blocknumber, node, processing_queue, calls>>

\* lines 336-342: the re-triggers, and the next tick is scheduled
SanityEnd ==
  /\ sanity.pc = "end"
  /\ tasks' = Dispatched(Retriggered(sanity.addresses_to_check), {})
  /\ \A a \in Addresses : tasks'[a] <= MaxTasks
  /\ sanity' = Scheduled
  /\ UNCHANGED <<status, blocknumber, Tx, last_blocknumber, node,
                 processing_queue, calls, pns>>

\* -------------------------------------------------------- environment
\* another service dispatches process_transaction_queue(a) (a submission)
Trigger(a) ==
  /\ tasks[a] < MaxTasks
  /\ tasks' = [tasks EXCEPT ![a] = @ + 1]
  /\ UNCHANGED <<status, blocknumber, Tx, last_blocknumber, node,
                 processing_queue, calls, pns, sanity>>

\* the network includes a pending transaction in block b, the one after the
\* last block the monitor has finished
NodeMine(r, b) ==
  /\ node[r] = None
  /\ b \in Blocks
  /\ node' = [node EXCEPT ![r] = b]
  /\ UNCHANGED <<status, blocknumber, Tx, last_blocknumber, processing_queue,
                 calls, tasks, pns, sanity>>

\* the node forgets a pending transaction
NodeDrop(r) ==
  /\ node[r] = None
  /\ node' = [node EXCEPT ![r] = Unknown]
  /\ UNCHANGED <<status, blocknumber, Tx, last_blocknumber, processing_queue,
                 calls, tasks, pns, sanity>>

\* the block monitor marks a mined row confirmed
MonitorConfirm(r) ==
  /\ node[r] \in Blocks
  /\ status[r] \in {"NULL", "queued", "unconfirmed"}
  /\ status' = [status EXCEPT ![r] = "confirmed"]
  /\ blocknumber' = [blocknumber EXCEPT ![r] = node[r]]
  /\ UNCHANGED <<Tx, last_blocknumber, node, processing_queue, calls, tasks,
                 pns, sanity>>

\* the block monitor advances last_blocknumber
MonitorAdvance ==
  /\ OrZero(last_blocknumber) < MaxBlock
  /\ last_blocknumber' = OrZero(last_blocknumber) + 1
  /\ UNCHANGED <<status, blocknumber, Tx, node, processing_queue, calls,
                 tasks, pns, sanity>>

\* another service calls update_transaction(id, s) as a task
UpdateTask(id, s) ==
  /\ ~update_transaction(id, s).raised
  /\ Commit(id, update_transaction(id, s))
  /\ UNCHANGED <<Tx, last_blocknumber, node, processing_queue, calls, sanity>>

\* a reorganisation of the chain: the node no longer knows a mined transaction
NodeReorg(r) ==
  /\ node[r] \in Blocks
  /\ node' = [node EXCEPT ![r] = Unknown]
  /\ UNCHANGED <<status, blocknumber, Tx, last_blocknumber, processing_queue,
                 calls, tasks, pns, sanity>>

\* line 310: eth_getTransactionByHash raises (the node cannot be reached); the
\* exception leaves sanity_check
SanityLookupFails ==
  /\ sanity.pc = "lookup"
  /\ sanity' = [Scheduled EXCEPT !.pc = "dead"]
  /\ UNCHANGED <<status, blocknumber, Tx, last_blocknumber, node,
                 processing_queue, calls, tasks, pns>>

\* ------------------------------------------------------ specification
InitWith(tables) ==
  /\ status = [r \in Rows |-> "NULL"]
  /\ blocknumber = [r \in Rows |-> None]
  /\ Tx \in tables
  /\ last_blocknumber = None
  /\ node = [r \in Rows |-> Unknown]
  /\ processing_queue = <<>>
  /\ calls = [p \in Calls |-> Idle]
  /\ tasks = [a \in Addresses |-> 0]
  /\ pns = [r \in Rows |-> [a \in Addresses |-> <<>>]]
  /\ sanity = Scheduled

Init == InitWith(Tables)

\* the steps of the call in slot p
Pass(p) ==
  \/ \E a \in Addresses : Call(p, a)
  \/ ReadQueue(p)
  \/ ReadBalance(p)
  \/ Loop(p)
  \/ Sent(p)
  \/ Park(p)
  \/ Return(p)
  \/ Finally(p)

Sanity == SanityStart \/ SanityAddress \/ SanityLookup \/ SanityUpdate \/ SanityEnd

Environment ==
  \/ \E a \in Senders : Trigger(a)
  \/ \E r \in Rows : NodeMine(r, OrZero(last_blocknumber) + 1)
  \/ \E r \in Rows : NodeDrop(r)
  \/ \E r \in Rows : MonitorConfirm(r)
  \/ MonitorAdvance

\* The manager with its reconciler, the node and the block monitor.
Next == (\E p \in Workers : Pass(p)) \/ Sanity \/ Environment

Spec == Init /\ [][Next]_vars

\* The manager, the node and the block monitor, and update_transaction called
\* as a task with any status.  The reconciler writes rows only by calling
\* update_transaction (lines 316, 322), which these calls cover.
NextAPI ==
  \/ \E p \in Workers : Pass(p)
  \/ Environment
  \/ \E id \in IdsAPI, s \in Targets : UpdateTask(id, s)

InitAPI == InitWith(TablesAPI)

SpecAPI == InitAPI /\ [][NextAPI]_vars

\* Concurrent calls of process_transaction_queue on the gate; the node never
\* mines and the reconciler does not run.
NextGate == (\E p \in Calls : Pass(p)) \/ \E a \in Senders : Trigger(a)

SpecGate == Init /\ [][NextGate]_vars

\* The scheduler resumes every coroutine that can run: a call that can take
\* its next step takes it.  (A call about to dispatch waits while the bus is at
\* MaxTasks.)
FairGate == SpecGate /\ \A p \in Calls : WF_vars(Pass(p))

\* The reconciler beside one sender's queue (table Queue), with a node that
\* can fail to answer and can lose a mined transaction.
NextTick ==
  \/ Next
  \/ SanityLookupFails
  \/ \E r \in Rows : NodeReorg(r)

InitTick == InitWith({Queue})

SpecTick == InitTick /\ [][NextTick]_vars

\* The passes over two addresses that pay each other (table Cycle), with the
\* node and the block monitor; the reconciler's tick is not due.
NextQuiet == (\E p \in Workers : Pass(p)) \/ Environment

InitQuiet == InitWith({Cycle})

SpecQuiet == InitQuiet /\ [][NextQuiet]_vars

\* A call that can take its next step takes it, and the bus hands out its
\* tasks in the order they were dispatched: a task that is pending is taken
\* by a worker, however often tasks for other addresses are dispatched.
FairQuiet ==
  /\ SpecQuiet
  /\ \A p \in Workers : WF_vars(Pass(p))
  /\ \A a \in Addresses : SF_vars(\E p \in Workers : Call(p, a))

\* Concurrent calls of process_transaction_queue beside the reconciler, the
\* node and the block monitor, over the tables with one signed row.
NextSend == (\E p \in Calls : Pass(p)) \/ Sanity \/ Environment

InitSend == InitWith(TablesAPI)

SpecSend == InitSend /\ [][NextSend]_vars

\* ---------------------------------------------------------------- C1
\* the calls that hold the gate of address a: from the start of
\* _process_transaction_queue until the gate is handed on
Holders(a) ==
  {p \in Calls : /\ calls[p].ethereum_address = a
                 /\ calls[p].pc \in InPass \cup {"finally"}}

Waiters(a) ==
  {p \in Calls : calls[p].ethereum_address = a /\ calls[p].pc = "await"}

\* C1: for every address, in every reachable state, at most one call is between
\* the start and the end of _process_transaction_queue.
C1_OnePassPerAddress == \A a \in Addresses : Cardinality(Holders(a)) <= 1

\* a pass is in its loop on an address while another call waits at its gate
C1_Witness ==
  \E a \in Senders :
    /\ \E p \in Holders(a) : calls[p].pc \in {"loop", "sent", "park"}
    /\ Waiters(a) # {}

\* ---------------------------------------------------------------- C2
\* every pass ends, by returning or by raising
PassesEnd ==
  \A p \in Calls : (calls[p].pc \in InPass) ~> (calls[p].pc \notin InPass)

\* with no holder and no waiter left, the address has no gate entry; every
\* waiter is in the gate's queue of an address that has a holder
GateClean ==
  \A a \in Addresses :
    /\ (Holders(a) = {} /\ Waiters(a) = {}) => a \notin DOMAIN processing_queue
    /\ Waiters(a) # {} => Holders(a) # {}
    /\ \A p \in Waiters(a) :
         \E i \in 1..Len(processing_queue[a]) : processing_queue[a][i] = p

\* C2: if every pass ends, every call that waits at a gate is eventually woken
\* and runs its own pass; a pass that raised hands the gate on like one that
\* returned; once no pass runs and no call waits, the gate entry is gone.
C2_GateNeverWedges ==
  /\ []GateClean
  /\ PassesEnd =>
       \A p \in Calls : (calls[p].pc = "await") ~> (calls[p].pc = "process")

\* a pass has raised and still holds the gate another call waits at
C2_Witness ==
  \E p, q \in Calls :
    /\ calls[p].pc = "finally" /\ calls[p].raised
    /\ calls[q].pc = "await"
    /\ calls[q].ethereum_address = calls[p].ethereum_address

C4_ErrorIsTerminal ==
  [][\A r \in Rows : status[r] = "error" => status'[r] = "error"]_vars

\* C4 amended: a row leaves 'error' only by an update_transaction call with
\* another target status, and then takes that status: a call made by another
\* service, or the call of a queue pass that read the row as NULL or 'queued'
\* before it became 'error'.
C4_ErrorLeftOnlyByUpdate ==
  [][\A r \in Rows :
       (status[r] = "error" /\ status'[r] # "error") =>
         \/ \E s \in Targets \ {"error"} : status'[r] = s /\ UpdateTask(r, s)
         \/ \E p \in Workers :
              /\ calls[p].transaction.id = r
              /\ \/ /\ Sent(p)
                    /\ status'[r] = "unconfirmed"
                    /\ calls[p].transaction.status \in {"NULL", "queued"}
                 \/ /\ Park(p)
                    /\ status'[r] = "queued"
                    /\ calls[p].transaction.status = "NULL"]_vars

\* a pass has broadcast a row and is about to mark it 'unconfirmed', and the
\* row has become 'error' in between
C4_Witness ==
  \E p \in Workers :
    /\ calls[p].pc = "sent"
    /\ status[calls[p].transaction.id] = "error"

\* ---------------------------------------------------------------- C5
\* C5: no 'queued' row of a sender has a lower nonce than an 'unconfirmed' row
\* of that sender; every row a pass handled before a row it broadcast is
\* 'unconfirmed', 'error' or 'confirmed'.
C5_QueueOrder ==
  /\ \A r1, r2 \in Rows :
       (/\ Tx[r1].from_address = Tx[r2].from_address
        /\ status[r1] = "queued"
        /\ status[r2] = "unconfirmed") => Tx[r1].nonce > Tx[r2].nonce
  /\ \A p \in Workers :
       \A i, j \in 1..Len(calls[p].done) :
         (i < j /\ calls[p].done[j].branch = "send") =>
            status[calls[p].done[i].id] \in {"unconfirmed", "error", "confirmed"}

\* a pass that found rows 'queued' ends having broadcast two of them
C5_Witness ==
  \E p \in Workers :
    /\ calls[p].pc = "dispatch"
    /\ \E i, j \in 1..Len(calls[p].done) :
         /\ i < j
         /\ calls[p].done[i].branch = "send"
         /\ calls[p].done[j].branch = "send"
    /\ \E r \in Rows : \E a \in Addresses : Len(pns[r][a]) = 1

\* ---------------------------------------------------------------- C6
\* C6: within one pass, every row handled after a row that failed (nonce
\* mismatch, signature of another address, JSON-RPC error on broadcast,
\* balance plus pending inbound below cost) takes the cascade branch: it is
\* not broadcast, it becomes 'error', and its to_address is in the re-trigger
\* set.
C6_Cascade ==
  \A p \in Workers :
    \A i, j \in 1..Len(calls[p].done) :
      (i < j /\ calls[p].done[i].branch
                   \in {"nonce", "signature", "rpc", "insufficient"}) =>
        /\ calls[p].done[j].branch = "previous_error"
        /\ status[calls[p].done[j].id] = "error"
        /\ Tx[calls[p].done[j].id].to_address \in calls[p].addresses_to_check

\* a pass ends in which the broadcast of a row failed after an earlier row was
\* broadcast, and a later row was cascaded
C6_Witness ==
  \E p \in Workers :
    /\ calls[p].pc = "dispatch"
    /\ Len(calls[p].done) = 3
    /\ calls[p].done[1].branch = "send"
    /\ calls[p].done[2].branch = "rpc"
    /\ calls[p].done[3].branch = "previous_error"

\* ---------------------------------------------------------------- C7
\* C7: an update_transaction call whose target status is the one the row has,
\* or whose transaction_id names no row, writes nothing, notifies nobody and
\* dispatches nothing; after any call, the same call again is such a call.
C7_SameStatusIsNoOp ==
  [][/\ \A id \in IdsAPI, s \in Targets :
          UpdateTask(id, s) =>
            /\ (id \notin Rows \/ status[id] = s) =>
                  UNCHANGED <<status, blocknumber, pns, tasks>>
            /\ id \in Rows => (status'[id] = s \/ status'[id] = "confirmed")
     /\ \A p \in Workers :
          (Sent(p) /\ status[calls[p].transaction.id] = "unconfirmed") =>
             UNCHANGED <<status, blocknumber, pns, tasks>>]_vars

\* a row has been given a status by update_transaction and has been announced,
\* so that the same call can be made again
C7_Witness ==
  /\ status["t1"] = "error"
  /\ pns["t1"][Tx["t1"].from_address] # <<>>

\* ---------------------------------------------------------------- C8
\* the table of the notifications, by role
C8_Sender(prev, new) == ~(prev = "queued" /\ new = "unconfirmed")

C8_Recipient(prev, new) ==
  C8_Sender(prev, new) /\ ~(prev = "NULL" /\ new = "error")

\* the pairs of statuses the table lists
C8_Listed(prev, new) ==
  \/ prev = "NULL" /\ new \in {"unconfirmed", "queued", "error"}
  \/ prev = "queued" /\ new = "unconfirmed"
  \/ prev # "NULL" /\ new \in {"error", "confirmed"}

\* a step in which update_transaction changes the status of row r along a
\* pair of the table, the recipient not being "0x"
C8_Change(r) ==
  /\ status'[r] # status[r]
  /\ ~MonitorConfirm(r)
  /\ Tx[r].to_address # ZeroX
  /\ C8_Listed(status[r], status'[r])

\* C8 as stated: a status change of the table notifies the addresses of the
\* table, each with exactly one send_notification.
C8_OnePerAddress ==
  [][\A r \in Rows :
       C8_Change(r) =>
         \A a \in Addresses :
           pns'[r][a] = pns[r][a] \o
             (IF \/ a = Tx[r].from_address /\ C8_Sender(status[r], status'[r])
                 \/ a = Tx[r].to_address /\ C8_Recipient(status[r], status'[r])
              THEN <<Shown(status'[r])>> ELSE <<>>)]_vars

\* C8 amended: a status change of the table sends one send_notification to the
\* sender and one to the recipient as the table says; an address that is both
\* gets one for each role.
C8_OnePerRole ==
  [][\A r \in Rows :
       C8_Change(r) =>
         \A a \in Addresses :
           pns'[r][a] = pns[r][a] \o
             Copies((IF a = Tx[r].from_address /\ C8_Sender(status[r], status'[r])
                     THEN 1 ELSE 0)
                    + (IF a = Tx[r].to_address
                          /\ C8_Recipient(status[r], status'[r])
                       THEN 1 ELSE 0),
                    IF status'[r] = "queued" THEN "unconfirmed" ELSE status'[r])]_vars

\* a row whose recipient is another address went from NULL to 'error': its
\* sender was told, its recipient was not
C8_Witness ==
  \E r \in Rows :
    /\ Tx[r].to_address \notin {ZeroX, Tx[r].from_address}
    /\ status[r] = "error"
    /\ pns[r][Tx[r].from_address] = <<"error">>
    /\ pns[r][Tx[r].to_address] = <<>>

\* ---------------------------------------------------------------- C9
\* C9 as stated: what an address is told about a transaction is 'unconfirmed',
\* then 'confirmed' or 'error', each at most once, and never 'queued'.
C9_ObserverSequence ==
  \A r \in Rows : \A a \in Addresses :
    pns[r][a] \in {<<>>, <<"unconfirmed">>, <<"unconfirmed", "confirmed">>,
                   <<"unconfirmed", "error">>}

\* C9 amended: under queue passes, reconciler ticks and the block monitor, no
\* notification carries 'queued'; a recipient that is not the sender is told
\* 'unconfirmed', then 'confirmed' or 'error'; the sender may instead be told
\* 'error' alone (the row failed from NULL); an address that is sender and
\* recipient is told each status twice, but the lone 'error' once; nobody else
\* is told anything.
C9_RoleSequence ==
  \A r \in Rows : \A a \in Addresses :
    pns[r][a] \in
      IF a = Tx[r].from_address /\ a = Tx[r].to_address
        THEN {<<>>, <<"error">>, <<"unconfirmed", "unconfirmed">>,
              <<"unconfirmed", "unconfirmed", "confirmed", "confirmed">>,
              <<"unconfirmed", "unconfirmed", "error", "error">>}
      ELSE IF a = Tx[r].from_address
        THEN {<<>>, <<"error">>, <<"unconfirmed">>,
              <<"unconfirmed", "confirmed">>, <<"unconfirmed", "error">>}
      ELSE IF a = Tx[r].to_address /\ a # ZeroX
        THEN {<<>>, <<"unconfirmed">>, <<"unconfirmed", "confirmed">>,
              <<"unconfirmed", "error">>}
      ELSE {<<>>}

\* a recipient has been told 'unconfirmed' and then 'confirmed'
C9_Witness ==
  \E r \in Rows :
    /\ Tx[r].to_address \notin {ZeroX, Tx[r].from_address}
    /\ pns[r][Tx[r].to_address] = <<"unconfirmed", "confirmed">>

\* --------------------------------------------------------------- C10
\* C10: no process_transaction_queue task and no send_notification is ever
\* dispatched with address "0x".
C10_NoSideEffectOnZeroX ==
  /\ tasks[ZeroX] = 0
  /\ \A r \in Rows : pns[r][ZeroX] = <<>>

\* a contract deployment has been broadcast and announced to its sender, and
\* the pass ends with "0x" in its re-trigger set
C10_Witness ==
  \E p \in Workers :
    /\ calls[p].pc = "dispatch"
    /\ ZeroX \in calls[p].addresses_to_check
    /\ \E r \in Rows :
         /\ Tx[r].to_address = ZeroX
         /\ pns[r][Tx[r].from_address] # <<>>

\* --------------------------------------------------------------- C11
\* C11: a pass that read last_blocknumber as NULL and reaches a row it can
\* park takes the park branch as if last_block were 0: it goes on to mark the
\* rows 'queued', and re-triggers its own address exactly when an incoming row
\* has a blocknumber above 0.
C11_NullBlockAsZero ==
  [][\A p \in Workers :
       (/\ calls[p].pc = "loop"
        /\ calls[p].last_blocknumber = None
        /\ Branch(calls[p], Head(calls[p].transactions_out).id) = "park"
        /\ calls'[p] # calls[p]) =>
          /\ calls'[p].pc = "park"
          /\ calls'[p].addresses_to_check =
               calls[p].addresses_to_check \cup
                 (IF \E r \in Incoming(calls[p].ethereum_address, None) :
                        blocknumber[r] # None /\ blocknumber[r] > 0
                  THEN {calls[p].ethereum_address} ELSE {})]_vars

\* --------------------------------------------------------------- C12
\* the number of rows the pass of call c has broadcast among the first n it
\* handled
C12_Sends(c, n) ==
  Cardinality({i \in 1..n : c.done[i].branch = "send"})

\* C12: the running balance of a pass starts at one eth_getBalance answer
\* minus the cost of the in-flight rows, and the expected nonce at the highest
\* in-flight nonce plus one (the network count when nothing is in flight); a
\* row is broadcast only when its nonce is the expected one and the running
\* balance covers its cost, whatever the pending inbound funds; each broadcast
\* takes the cost off the balance and adds one to the nonce, and nothing else
\* changes them.  So the rows broadcast have consecutive nonces and the balance
\* never goes below zero by a broadcast.
C12_NonceAndBalance ==
  [][\A p \in Workers :
       LET c == calls[p]
           d == calls'[p]
           infl == Inflight(c.ethereum_address, c.last_blocknumber)
       IN /\ (c.pc = "balance" /\ d.pc = "loop") =>
               IF infl = {}
               THEN d.balance \in Balances /\ d.nonce \in TxCounts
               ELSE /\ d.balance + SumOver(infl, [r \in Rows |-> Cost(r)])
                         \in Balances
                    /\ \E r \in infl : /\ d.nonce = Tx[r].nonce + 1
                                       /\ \A x \in infl : Tx[x].nonce <= Tx[r].nonce
          /\ (c.pc = "loop" /\ d.pc = "sent") =>
               /\ d.transaction.status \in {"NULL", "queued"}
               /\ c.nonce = Tx[d.transaction.id].nonce
               /\ c.balance >= Cost(d.transaction.id)
               /\ d.balance = c.balance /\ d.nonce = c.nonce
          /\ (c.pc = "sent" /\ d.pc # "sent") =>
               /\ d.balance = c.balance - Cost(c.transaction.id)
               /\ d.nonce = c.nonce + 1
               /\ d.balance >= 0
          /\ (c.pc \in {"loop", "park"} /\ d.pc \in {"loop", "park", "dispatch"}) =>
               d.balance = c.balance /\ d.nonce = c.nonce
          /\ \A i, j \in 1..Len(c.done) :
               (i < j /\ c.done[i].branch = "send" /\ c.done[j].branch = "send") =>
                  Tx[c.done[j].id].nonce - Tx[c.done[i].id].nonce
                    = C12_Sends(c, j) - C12_Sends(c, i)]_vars

\* a pass ends having broadcast a row whose predecessor in nonce order was
\* handled by an earlier pass
C12_Witness ==
  \E p \in Workers :
    /\ calls[p].pc = "dispatch"
    /\ \E i \in 1..Len(calls[p].done) :
         /\ calls[p].done[i].branch = "send"
         /\ Tx[calls[p].done[i].id].nonce > 0
         /\ \E r \in Rows :
              /\ Tx[r].from_address = calls[p].ethereum_address
              /\ Tx[r].nonce < Tx[calls[p].done[i].id].nonce
              /\ r \notin {calls[p].done[k].id : k \in 1..Len(calls[p].done)}

\* --------------------------------------------------------------- C13
\* call p is at a row with the expected nonce whose cost the running balance
\* does not cover
C13_Short(p) ==
  /\ calls[p].pc = "loop"
  /\ ~calls[p].previous_error
  /\ calls[p].nonce = Tx[Head(calls[p].transactions_out).id].nonce
  /\ calls[p].balance < Cost(Head(calls[p].transactions_out).id)

\* what a pass does with such a row (for every == FALSE: when the test of line
\* 196 can be evaluated), and what the park loop does with each row
C13_Decision(every) ==
  \A p \in Workers :
    LET c == calls[p]
        d == calls'[p]
    IN /\ (/\ C13_Short(p)
           /\ d # c
           /\ every \/ ConfirmedSince(c.ethereum_address, c.last_blocknumber)
                          # "TypeError") =>
            LET id == Head(c.transactions_out).id
            IN IF c.balance
                    + PendingReceived(c.ethereum_address, c.last_blocknumber)
                    < Cost(id)
               THEN /\ status'[id] = "error"
                    /\ d.previous_error
                    /\ d.pc \in {"loop", "dispatch"}
               ELSE /\ d.pc = "park"
                    /\ d.transaction.id = id
                    /\ UNCHANGED <<status, node, pns, tasks>>
       /\ (c.pc = "park" /\ d # c) =>
            /\ d.pc \in {"park", "dispatch"}
            /\ d.pc = "dispatch" <=> c.transactions_out = <<>>
            /\ node' = node
            /\ \A r \in Rows :
                 status'[r] =
                   IF r = c.transaction.id /\ c.transaction.status = "NULL"
                   THEN "queued" ELSE status[r]
            /\ c.transaction.status # "NULL" => UNCHANGED <<pns, tasks>>

\* C13: a row with the expected nonce and balance < cost becomes 'error', and
\* starts the cascade, when balance + pending inbound < cost; otherwise the
\* queue is parked: this row and each remaining row that was read as NULL
\* becomes 'queued', a row read as 'queued' gets no update, none is broadcast
\* or set to 'error', and the loop ends.
C13_ParkOrError == [][C13_Decision(TRUE)]_vars

\* the same for the passes whose snapshot of last_blocknumber is not NULL, or
\* whose incoming rows have no blocknumber
C13_ParkOrErrorKnownBlock == [][C13_Decision(FALSE)]_vars

\* a pass has parked a row it read as NULL and one it read as 'queued'
C13_Parked ==
  \E p \in Workers :
    /\ calls[p].pc = "dispatch"
    /\ Len(calls[p].done) >= 2
    /\ \A i \in 1..Len(calls[p].done) : calls[p].done[i].branch = "park"

\* --------------------------------------------------------------- C14
\* the pass of call c parked a row and rows remained after it
C14_ParkedWithRest(c) ==
  /\ Len(c.done) >= 2
  /\ c.done[Len(c.done)].branch = "park"
  /\ c.done[Len(c.done) - 1].branch = "park"

\* C14: when a pass that parked its queue with rows remaining after the parked
\* row ends, process_transaction_queue for its address has been dispatched: a
\* task for the address is on the bus, or a call for it waits at the gate.
C14_ParkedQueueRescheduled ==
  [][\A p \in Workers :
       (Return(p) /\ C14_ParkedWithRest(calls[p])) =>
          \/ tasks'[calls[p].ethereum_address] >= 1
          \/ Waiters(calls[p].ethereum_address) # {}]_vars

C16_Dispatch(skipped) ==
  \A r \in Rows :
    (/\ status'[r] # status[r]
     /\ ~MonitorConfirm(r)
     /\ Tx[r].to_address # ZeroX
     /\ <<status[r], status'[r]>> \notin skipped) =>
        tasks'[Tx[r].to_address] = tasks[Tx[r].to_address] + 1

\* C16: every update_transaction call that changes the status of a row, for
\* every pair of statuses, dispatches process_transaction_queue(to_address)
\* unless to_address is "0x".
C16_AlwaysDispatches == [][C16_Dispatch({})]_vars

\* the same for every pair of statuses but 'queued' to 'unconfirmed'
C16_DispatchesButQueuedSent ==
  [][C16_Dispatch({<<"queued", "unconfirmed">>})]_vars

\* --------------------------------------------------------------- C17
\* what the steps of a reconciler tick do (for every == FALSE: leaving out the
\* update of a row the node has lost since the tick looked it up)
C17_Tick(every) ==
  LET id == sanity.tx.id
      bn == sanity.tx.blockNumber
      check == sanity.addresses_to_check
      both == {Tx[id].from_address, Tx[id].to_address}
  IN sanity' # sanity =>
       /\ (sanity.pc = "update" /\ status[id] = "unconfirmed") =>
            /\ bn = Unknown =>
                 /\ status'[id] = "error"
                 /\ sanity'.addresses_to_check = check \cup both
            /\ (bn \in Blocks /\ (every \/ node[id] # Unknown)) =>
                 /\ status'[id] = "confirmed"
                 /\ blocknumber'[id] = bn
                 /\ sanity'.addresses_to_check = check \cup both
            /\ bn = None =>
                 /\ UNCHANGED <<status, blocknumber, pns, tasks>>
                 /\ sanity'.addresses_to_check = check
       /\ sanity.pc = "address" =>
            sanity'.addresses_to_check =
              IF UnconfirmedOf(Head(sanity.rows)) = {}
              THEN check \cup {Head(sanity.rows)} ELSE check
       /\ (sanity.pc = "end" /\ sanity'.pc = "scheduled") =>
            \A a \in Addresses :
              tasks'[a] = tasks[a] + (IF a \in check /\ a # ZeroX THEN 1 ELSE 0)
       /\ \A r \in Rows :
            status[r] \in {"NULL", "queued"} =>
              status'[r] = status[r] /\ blocknumber'[r] = blocknumber[r]

\* C17: in a reconciler tick an 'unconfirmed' row the node no longer knows
\* becomes 'error', one the node reports with a block number becomes
\* 'confirmed' with that block number, and both addresses of the row are
\* re-triggered; a row the node reports as pending is left alone and
\* re-triggers nothing; a stale sender without 'unconfirmed' rows is
\* re-triggered; no row that is NULL or 'queued' is changed.
C17_TickVerdicts == [][C17_Tick(TRUE)]_vars

\* the same, but for the rows the node has lost between the lookup of the tick
\* and the lookup of update_transaction
C17_TickVerdictsStableNode == [][C17_Tick(FALSE)]_vars

\* a tick has set one row 'error' and one 'confirmed' and ends with the
\* addresses of both in its re-trigger set
C17_Reconciled ==
  /\ sanity.pc = "end"
  /\ ZeroX \in sanity.addresses_to_check
  /\ \E r1, r2 \in Rows : status[r1] = "error" /\ status[r2] = "confirmed"
                          /\ pns[r1][Tx[r1].from_address]
                               = <<"unconfirmed", "unconfirmed", "error", "error">>

\* --------------------------------------------------------------- C18
\* C18: a reconciler tick never ends without having dispatched the next
\* sanity_check: the task is scheduled or its tick is running.
C18_TickReschedules == sanity.pc # "dead"

\* --------------------------------------------------------------- C19
\* no call of process_transaction_queue is running or waiting
C19_AllIdle == \A p \in Calls : calls[p].pc = "idle"

\* no process_transaction_queue task is pending, none can be dispatched
C19_Quiet == C19_AllIdle /\ \A a \in Addresses : tasks[a] = 0

\* a task for the address is pending or a call on it is running
C19_Busy(a) ==
  \/ tasks[a] > 0
  \/ \E p \in Calls : calls[p].pc # "idle" /\ calls[p].ethereum_address = a

\* the address has outbound rows to schedule and an incoming row confirmed
\* in a block after last_blocknumber
C19_Hot(a) == Outbound(a) # {} /\ ConfirmedSince(a, last_blocknumber) = "yes"

\* C19 (as stated): once the environment makes no further change, and every
\* pass ends, after finitely many passes no process_transaction_queue task is
\* pending or running any more.
C19_Quiesces ==
  (<>[][~Environment]_vars /\ []<>C19_AllIdle) => <>[]C19_Quiet

\* C19 (amended): once the environment makes no further change, and every
\* pass ends, after finitely many passes the only addresses with a task
\* pending or a pass running are those with an outbound row to schedule and
\* an incoming row confirmed after last_blocknumber.
C19_QuiescesButParked ==
  (<>[][~Environment]_vars /\ []<>C19_AllIdle)
    => <>[](\A a \in Addresses : C19_Busy(a) => C19_Hot(a))

\* A has paid B, B's payment to A is parked, and nothing is pending
C19_Witness ==
  /\ C19_Quiet
  /\ status["t1"] = "unconfirmed"
  /\ status["t2"] = "queued"
  /\ Tx["t1"].to_address = Tx["t2"].from_address
  /\ Tx["t2"].to_address = Tx["t1"].from_address

\* --------------------------------------------------------------- C20
\* the call in slot p hands row r to eth_sendRawTransaction in this step
C20_Sends(p, r) ==
  /\ calls[p].pc = "loop"
  /\ calls'[p] # calls[p]
  /\ Head(calls[p].transactions_out).id = r
  /\ Branch(calls[p], r) = "send"

\* the row is in no queue any more: it was broadcast, or refused
C20_Out(s) == s \in {"unconfirmed", "confirmed", "error"}

====
